---- MODULE Spec2Model ----
(***************************************************************************)
(* Model of src-tauri/src/schema.rs: the seven extract_*_definition         *)
(* commands, validate_query and validate_where_clause.                      *)
(*                                                                          *)
(* The statement parser (surrealdb::sql::parse) is an external collaborator.*)
(* A call's text is represented by what the parser makes of it: an error    *)
(* node or a sequence of statement nodes.  The renderings of the nodes      *)
(* (to_string / to_raw) are computed by operators below.  Text that the     *)
(* code slices is a Rust String, i.e. a sequence of UTF-8 bytes; other      *)
(* rendered text is a sequence of words; names and comments are strings.    *)
(***************************************************************************)
EXTENDS Integers, Sequences, FiniteSets, TLC

VARIABLES pc, op, parsed, clause, ret, prev

vars == <<pc, op, parsed, clause, ret, prev>>

(* ------------------------------ bounds --------------------------------- *)

\* longest statement sequence the parser hands back
MaxStmts == 2

\* longest where-clause fragment, in tokens
MaxClause == 3

(* ------------------------- Option and results --------------------------- *)

None == [some |-> FALSE]

Some(x) == [some |-> TRUE, v |-> x]

Ok(d) == [tag |-> "Ok", val |-> d]

Err(m) == [tag |-> "Err", msg |-> m]

\* the command's thread panics: the call never returns a value
Panic == [tag |-> "Panic"]

(* ------------------------ Rust String (UTF-8) --------------------------- *)

\* char::encode_utf8 for the code points used here (below U+10000)
Utf8(cp) ==
    IF cp < 128 THEN <<cp>>
    ELSE IF cp < 2048 THEN <<192 + (cp \div 64), 128 + (cp % 64)>>
    ELSE <<224 + (cp \div 4096), 128 + ((cp \div 64) % 64), 128 + (cp % 64)>>

RECURSIVE Encode(_)
\* the bytes of a String holding the code points cps
Encode(cps) ==
    IF cps = <<>> THEN <<>> ELSE Utf8(Head(cps)) \o Encode(Tail(cps))

\* str::is_char_boundary: index 0, index len, or a byte that is not a
\* continuation byte (10xxxxxx)
is_char_boundary(s, i) ==
    \/ i = 0
    \/ i = Len(s)
    \/ /\ i < Len(s)
       /\ ~(s[i + 1] >= 128 /\ s[i + 1] < 192)

\* &s[a..b] on a String: panics unless a <= b <= len and both are boundaries
str_slice(s, a, b) ==
    IF a > b \/ b > Len(s) \/ ~is_char_boundary(s, a) \/ ~is_char_boundary(s, b)
    THEN Panic
    ELSE Ok(SubSeq(s, a + 1, b))

\* s[1..s.len() - 1]: len() - 1 on an empty String overflows usize (a panic
\* in a debug build, a range end past len in a release build: a panic too)
strip_wrapping(s) ==
    IF Len(s) = 0 THEN Panic ELSE str_slice(s, 1, Len(s) - 1)

(* --------------------------- value nodes -------------------------------- *)

IsAlnum(c) ==
    \/ (c >= 48 /\ c <= 57)
    \/ (c >= 65 /\ c <= 90)
    \/ (c >= 97 /\ c <= 122)
    \/ c = 95

\* record-id parts that are not plain identifiers are rendered inside the
\* angle brackets U+27E8 .. U+27E9
EscapeRid(cps) ==
    IF \A i \in 1..Len(cps) : IsAlnum(cps[i])
    THEN cps
    ELSE <<10216>> \o cps \o <<10217>>

Subquery(body) == [t |-> "Subquery", body |-> body]

Number(n) == [t |-> "Number", n |-> n]

Thing(tb, id) == [t |-> "Thing", tb |-> tb, id |-> id]

\* "CREATE user"
CreateUser == <<67, 82, 69, 65, 84, 69, 32, 117, 115, 101, 114>>

\* "a-b"
DashedName == <<97, 45, 98>>

Values ==
    { Subquery(CreateUser),
      Subquery(<<>>),
      Subquery(<<39, 233, 39>>),
      Number(1),
      Thing(<<117>>, <<97>>),
      Thing(DashedName, <<97>>),
      Thing(<<117>>, DashedName) }

\* the code points of Value::to_string()
ValueChars(v) ==
    CASE v.t = "Subquery" -> <<40>> \o v.body \o <<41>>
      [] v.t = "Number"   -> <<48 + v.n>>
      [] v.t = "Thing"    -> EscapeRid(v.tb) \o <<58>> \o EscapeRid(v.id)

\* q.to_string() as a Rust String
to_string(v) == Encode(ValueChars(v))

RECURSIVE ValuesChars(_)
\* Values::to_string(): the values joined by ", "
ValuesChars(vs) ==
    IF Len(vs) = 1 THEN ValueChars(vs[1])
    ELSE ValueChars(vs[1]) \o <<44, 32>> \o ValuesChars(Tail(vs))

values_to_string(vs) == Encode(ValuesChars(vs))

(* ---------------------- other rendered sub-clauses ---------------------- *)

\* Duration::to_string(): a zero duration renders as "0ns", never as ""
duration_to_string(secs) ==
    IF secs = 0 THEN <<"0ns">>
    ELSE (IF secs \div 3600 > 0 THEN <<ToString(secs \div 3600), "h">> ELSE <<>>)
         \o (IF (secs % 3600) \div 60 > 0
             THEN <<ToString((secs % 3600) \div 60), "m">> ELSE <<>>)
         \o (IF secs % 60 > 0 THEN <<ToString(secs % 60), "s">> ELSE <<>>)

\* Duration::default()
DefaultDuration == 0

\* a binary expression node
Expr(l, o, r) == [l |-> l, o |-> o, r |-> r]

AgeOver18 == Expr("age", ">", "18")

\* Expression::to_string()
expr_to_string(e) == <<e.l, e.o, e.r>>

\* Kind::to_string()
kind_to_string(k) == <<k.name>>

Full == [p |-> "Full"]

NoPermission == [p |-> "None"]

Specific(e) == [p |-> "Specific", e |-> e]

\* Permission::to_string()
permission_to_string(perm) ==
    CASE perm.p = "Full"     -> <<"FULL">>
      [] perm.p = "None"     -> <<"NONE">>
      [] perm.p = "Specific" -> <<"WHERE">> \o expr_to_string(perm.e)

\* Permissions::default(): what a statement without a PERMISSIONS clause holds
DefaultPermissions ==
    [select |-> Full, create |-> Full, update |-> Full, delete |-> Full]

SomePermissions ==
    [select |-> Specific(AgeOver18), create |-> NoPermission,
     update |-> Full, delete |-> NoPermission]

\* Cond::to_string()
cond_to_string(c) == <<"WHERE">> \o expr_to_string(c)

\* Groups::to_string()
group_to_string(g) == <<"GROUP", "BY">> \o g

\* ChangeFeed::to_string()
changefeed_to_string(secs) == <<"CHANGEFEED">> \o duration_to_string(secs)

(* ------------------------- statement nodes ------------------------------ *)

ScopeStmt(signup, signin, session, comment) ==
    [kind |-> "Scope", name |-> "account", signup |-> signup, signin |-> signin,
     session |-> session, comment |-> comment]

TableStmt(drop, full, view, permissions, comment, changefeed) ==
    [kind |-> "Table", name |-> "person", drop |-> drop, full |-> full,
     view |-> view, permissions |-> permissions, comment |-> comment,
     changefeed |-> changefeed]

View(cond, group) ==
    [expr |-> <<"*">>, what |-> <<"person">>, cond |-> cond, group |-> group]

FieldStmt(flex, kind, value, assert, default, permissions, comment) ==
    [kind |-> "Field", name |-> "email", flex |-> flex, type |-> kind,
     value |-> value, assert |-> assert, default |-> default,
     permissions |-> permissions, comment |-> comment]

AnalyzerStmt(tokenizers, filters, comment) ==
    [kind |-> "Analyzer", name |-> "simple", tokenizers |-> tokenizers,
     filters |-> filters, comment |-> comment]

\* Index: Idx, Uniq, Search(parameters) or MTree(parameters)
Idx == [strategy |-> "Idx"]

Uniq == [strategy |-> "Uniq"]

Search(az) == [strategy |-> "Search", az |-> az]

MTree(dimension) == [strategy |-> "MTree", dimension |-> dimension]

IndexStmt(index, comment) ==
    [kind |-> "Index", name |-> "idx", what |-> "person", cols |-> <<"email">>,
     index |-> index, comment |-> comment]

EventStmt(then, comment) ==
    [kind |-> "Event", name |-> "ev", what |-> "person", when |-> AgeOver18,
     then |-> then, comment |-> comment]

UserStmt(roles, comment) ==
    [kind |-> "User", name |-> "root", roles |-> roles, comment |-> comment]

\* a statement that is not a definition
SelectStmt == [kind |-> "Select"]

ScopeStmts ==
    { ScopeStmt(su, None, None, None) : su \in {None} \cup {Some(v) : v \in Values} }
    \cup { ScopeStmt(None, Some(v), None, None) :
             v \in {Subquery(<<>>), Subquery(CreateUser), Number(1)} }
    \cup { ScopeStmt(Some(Subquery(CreateUser)), Some(Subquery(CreateUser)),
                     Some(3600), Some("users")),
           ScopeStmt(None, None, Some(0), None) }

TableStmts ==
    { TableStmt(FALSE, FALSE, None, DefaultPermissions, None, None),
      TableStmt(TRUE, TRUE, Some(View(Some(AgeOver18), Some(<<"age">>))),
                SomePermissions, Some("people"), Some(3600)),
      TableStmt(FALSE, FALSE, Some(View(None, None)), DefaultPermissions,
                None, None) }

FieldStmts ==
    { FieldStmt(FALSE, None, None, None, None, DefaultPermissions, None),
      FieldStmt(TRUE, Some([name |-> "string"]), Some(Expr("$value", "+", "1")),
                Some(AgeOver18), Some(Expr("18", "+", "1")), SomePermissions,
                Some("mail")) }

AnalyzerStmts ==
    { AnalyzerStmt(None, None, None),
      AnalyzerStmt(Some(<<"BLANK", "CLASS">>), Some(<<"LOWERCASE">>), Some("text")) }

IndexStmts ==
    { IndexStmt(ix, c) : ix \in {Idx, Uniq, Search("simple"), MTree(4)},
                         c \in {None} }
    \cup { IndexStmt(Search("simple"), Some("fts")) }

EventStmts ==
    { EventStmt(<<v>>, None) :
        v \in {Subquery(CreateUser), Number(1), Thing(<<117>>, DashedName)} }
    \cup { EventStmt(<<Subquery(CreateUser), Subquery(CreateUser)>>, Some("audit")) }

UserStmts ==
    { UserStmt(<<"Viewer">>, None), UserStmt(<<"OWNER", "EDITOR">>, Some("admin")) }

Statements ==
    ScopeStmts \cup TableStmts \cup FieldStmts \cup AnalyzerStmts
    \cup IndexStmts \cup EventStmts \cup UserStmts \cup {SelectStmt}

(* --------------------------- the parser --------------------------------- *)

\* the parser's error nodes
ParseErrors ==
    { [variant |-> "QueryEmpty", line |-> 0, char |-> 0],
      [variant |-> "InvalidQuery", line |-> 1, char |-> 1],
      [variant |-> "InvalidQuery", line |-> 1, char |-> 8] }

\* Error::to_string(): the parser's diagnostic
error_to_string(e) ==
    IF e.variant = "QueryEmpty"
    THEN <<"The SQL query was empty">>
    ELSE <<"Parse error on line", ToString(e.line), "at character", ToString(e.char)>>

ParseErr(e) == [ok |-> FALSE, err |-> e]

ParseOk(stmts) == [ok |-> TRUE, stmts |-> stmts]

SeqsUpTo(S, n) == UNION { [1..k -> S] : k \in 0..n }

\* the statements that follow the first one: one of every kind
LaterStatements ==
    { ScopeStmt(None, None, None, None),
      TableStmt(FALSE, FALSE, None, DefaultPermissions, None, None),
      FieldStmt(FALSE, None, None, None, None, DefaultPermissions, None),
      AnalyzerStmt(None, None, None),
      IndexStmt(Idx, None),
      EventStmt(<<Subquery(CreateUser)>>, None),
      UserStmt(<<"Viewer">>, None),
      SelectStmt }

\* the statement sequences: empty, or any first statement and later ones
StatementSeqs ==
    { <<>> } \cup
    { <<first>> \o rest : first \in Statements,
                          rest \in SeqsUpTo(LaterStatements, MaxStmts - 1) }

\* what parse(text) can return: Result<Query, Error>, Query a Vec<Statement>
ParseOutcomes ==
    { ParseErr(e) : e \in ParseErrors }
    \cup { ParseOk(stmts) : stmts \in StatementSeqs }

(* -------------------------- field mappers ------------------------------- *)

\* parse_permissions
parse_permissions(perms) ==
    [select |-> permission_to_string(perms.select),
     create |-> permission_to_string(perms.create),
     update |-> permission_to_string(perms.update),
     delete |-> permission_to_string(perms.delete)]

\* parse_comment: the strand's content, or "" (unwrap_or_default)
parse_comment(comment) == IF comment.some THEN comment.v ELSE ""

(* ----------------------- shared prelude of a command -------------------- *)

\* a variant of the `?` conversion that replaces the diagnostic
propagate_fixed(e) == Err(<<"Failed to parse">>)

\* `parse(definition)?`: From<Error> for String is the error's to_string()
propagate(e) == Err(error_to_string(e))

\* a variant that looks at the last statement instead of the first
last_statement(stmts) == stmts[Len(stmts)]

\* `&parsed[0]`
first_statement(stmts) == stmts[1]

\* Vec indexing panics when the index is out of bounds
index_panics(stmts) == Len(stmts) = 0

(* ------------------------------ scope ----------------------------------- *)

\* a variant whose placeholder holds a blank: "( )"
PlaceholderBlank == <<40, 32, 41>>

\* "()".to_owned()
Placeholder == <<40, 41>>

ScopeInfo(s) ==
    LET signup == IF s.signup.some THEN to_string(s.signup.v) ELSE Encode(Placeholder)
        signin == IF s.signin.some THEN to_string(s.signin.v) ELSE Encode(Placeholder)
        su == strip_wrapping(signup)
        si == strip_wrapping(signin)
    IN  IF su.tag = "Panic" \/ si.tag = "Panic"
        THEN Panic
        ELSE Ok([name    |-> s.name,
                 signup  |-> su.val,
                 signin  |-> si.val,
                 session |-> duration_to_string(
                                IF s.session.some THEN s.session.v ELSE DefaultDuration),
                 comment |-> parse_comment(s.comment)])

extract_scope_definition(p) ==
    IF ~p.ok THEN propagate(p.err)
    ELSE IF index_panics(p.stmts) THEN Panic
    ELSE LET query == first_statement(p.stmts)
         IN  IF query.kind = "Scope"
             THEN ScopeInfo(query)
             ELSE Err(<<"Failed to extract scope">>)

(* ------------------------------ table ----------------------------------- *)

TableViewInfo(v) ==
    [expr  |-> v.expr,
     what  |-> v.what,
     cond  |-> IF v.cond.some THEN cond_to_string(v.cond.v) ELSE <<>>,
     group |-> IF v.group.some THEN group_to_string(v.group.v) ELSE <<>>]

TableInfo(t) ==
    Ok([name        |-> t.name,
        drop        |-> t.drop,
        schemafull  |-> t.full,
        permissions |-> parse_permissions(t.permissions),
        comment     |-> parse_comment(t.comment),
        view        |-> IF t.view.some THEN Some(TableViewInfo(t.view.v)) ELSE None,
        changefeed  |-> t.changefeed.some,
        changetime  |-> IF t.changefeed.some
                        THEN changefeed_to_string(t.changefeed.v) ELSE <<>>])

extract_table_definition(p) ==
    IF ~p.ok THEN propagate(p.err)
    ELSE IF index_panics(p.stmts) THEN Panic
    ELSE LET query == first_statement(p.stmts)
         IN  IF query.kind = "Table"
             THEN TableInfo(query)
             ELSE Err(<<"Failed to extract table">>)

(* ------------------------------ field ----------------------------------- *)

FieldInfo(f) ==
    Ok([name        |-> f.name,
        flexible    |-> f.flex,
        kind        |-> IF f.type.some THEN kind_to_string(f.type.v) ELSE <<>>,
        value       |-> IF f.value.some THEN expr_to_string(f.value.v) ELSE <<>>,
        assert      |-> IF f.assert.some THEN expr_to_string(f.assert.v) ELSE <<>>,
        default     |-> IF f.default.some THEN expr_to_string(f.default.v) ELSE <<>>,
        permissions |-> parse_permissions(f.permissions),
        comment     |-> parse_comment(f.comment)])

extract_field_definition(p) ==
    IF ~p.ok THEN propagate(p.err)
    ELSE IF index_panics(p.stmts) THEN Panic
    ELSE LET query == first_statement(p.stmts)
         IN  IF query.kind = "Field"
             THEN FieldInfo(query)
             ELSE Err(<<"Failed to extract field">>)

(* ----------------------------- analyzer --------------------------------- *)

AnalyzerInfo(a) ==
    Ok([name       |-> a.name,
        comment    |-> parse_comment(a.comment),
        tokenizers |-> IF a.tokenizers.some THEN a.tokenizers.v ELSE <<>>,
        filters    |-> IF a.filters.some THEN a.filters.v ELSE <<>>])

extract_analyzer_definition(p) ==
    IF ~p.ok THEN propagate(p.err)
    ELSE IF index_panics(p.stmts) THEN Panic
    ELSE LET query == first_statement(p.stmts)
         IN  IF query.kind = "Analyzer"
             THEN AnalyzerInfo(query)
             ELSE Err(<<"Failed to extract index">>)

(* ------------------------------ index ----------------------------------- *)

\* Index::to_string(): the index specification alone
index_to_string(ix) ==
    CASE ix.strategy = "Idx"    -> <<>>
      [] ix.strategy = "Uniq"   -> <<"UNIQUE">>
      [] ix.strategy = "Search" -> <<"SEARCH", "ANALYZER", ix.az, "BM25">>
      [] ix.strategy = "MTree"  -> <<"MTREE", "DIMENSION", ToString(ix.dimension)>>

\* DefineIndexStatement::to_string(): the whole statement
define_index_to_string(i) ==
    <<"DEFINE", "INDEX", i.name, "ON", i.what, "FIELDS">> \o i.cols
    \o index_to_string(i.index)
    \o (IF i.comment.some THEN <<"COMMENT", i.comment.v>> ELSE <<>>)

\* match i.index { Idx => Normal, Uniq => Unique, Search(_) => Search, MTree(_) => Vector }
index_kind(ix) ==
    CASE ix.strategy = "Idx"    -> "Normal"
      [] ix.strategy = "Uniq"   -> "Unique"
      [] ix.strategy = "Search" -> "Search"
      [] ix.strategy = "MTree"  -> "Vector"

\* a variant that fills both slots whenever the index carries parameters
index_slots_both(ix, index_str) ==
    CASE ix.strategy = "Search" -> <<index_str, index_str>>
      [] ix.strategy = "MTree"  -> <<index_str, index_str>>
      [] OTHER                  -> <<<<>>, <<>>>>

\* let (search, vector) = match i.index { ... }
index_slots(ix, index_str) ==
    CASE ix.strategy = "Search" -> <<index_str, <<>>>>
      [] ix.strategy = "MTree"  -> <<<<>>, index_str>>
      [] OTHER                  -> <<<<>>, <<>>>>

IndexInfo(i) ==
    LET index_str == define_index_to_string(i)
        slots == index_slots(i.index, index_str)
    IN  Ok([name    |-> i.name,
            fields  |-> i.cols,
            kind    |-> index_kind(i.index),
            search  |-> slots[1],
            vector  |-> slots[2],
            comment |-> parse_comment(i.comment)])

extract_index_definition(p) ==
    IF ~p.ok THEN propagate(p.err)
    ELSE IF index_panics(p.stmts) THEN Panic
    ELSE LET query == first_statement(p.stmts)
         IN  IF query.kind = "Index"
             THEN IndexInfo(query)
             ELSE Err(<<"Failed to extract index">>)

(* ------------------------------ event ----------------------------------- *)

EventInfo(e) ==
    LET then == strip_wrapping(values_to_string(e.then))
    IN  IF then.tag = "Panic"
        THEN Panic
        ELSE Ok([name    |-> e.name,
                 cond    |-> expr_to_string(e.when),
                 then    |-> then.val,
                 comment |-> parse_comment(e.comment)])

extract_event_definition(p) ==
    IF ~p.ok THEN propagate(p.err)
    ELSE IF index_panics(p.stmts) THEN Panic
    ELSE LET query == first_statement(p.stmts)
         IN  IF query.kind = "Event"
             THEN EventInfo(query)
             ELSE Err(<<"Failed to extract event">>)

(* ------------------------------- user ----------------------------------- *)

UserInfo(u) ==
    Ok([name    |-> u.name,
        roles   |-> u.roles,
        comment |-> parse_comment(u.comment)])

extract_user_definition(p) ==
    IF ~p.ok THEN propagate(p.err)
    ELSE IF index_panics(p.stmts) THEN Panic
    ELSE LET query == first_statement(p.stmts)
         IN  IF query.kind = "User"
             THEN UserInfo(query)
             ELSE Err(<<"Failed to extract user">>)

(* ---------------------------- validation -------------------------------- *)

\* match parse(query) { Ok(_) => None, Err(err) => Some(err.to_string()) }
validate_query(p) == IF p.ok THEN None ELSE Some(error_to_string(p.err))

\* The where-clause check needs the parser's verdict on a text it builds
\* itself, so here a text is a sequence of tokens and the parser's grammar
\* is modelled on the fragment of the language these tokens can form:
\*   query     ::= statement (";"+ statement)* ";"*
\*   statement ::= select | expr
\*   select    ::= SELECT * FROM table [WHERE expr] [LIMIT operand]
\*   expr      ::= operand (">" operand)*
\*   operand   ::= age | 18
ClauseTokens == {"age", "18", ">", "LIMIT", ";"}

Clauses == SeqsUpTo(ClauseTokens, MaxClause)

IsOperand(t) == t \in {"age", "18"}

IsExpr(ts) ==
    /\ Len(ts) % 2 = 1
    /\ \A i \in 1..Len(ts) : IF i % 2 = 1 THEN IsOperand(ts[i]) ELSE ts[i] = ">"

IsLimit(ts) == Len(ts) = 2 /\ ts[1] = "LIMIT" /\ IsOperand(ts[2])

IsWhere(ts) == Len(ts) >= 2 /\ ts[1] = "WHERE" /\ IsExpr(Tail(ts))

IsSelect(ts) ==
    /\ Len(ts) >= 4
    /\ SubSeq(ts, 1, 4) = <<"SELECT", "*", "FROM", "table">>
    /\ LET rest == SubSeq(ts, 5, Len(ts))
       IN  \E k \in 0..Len(rest) :
              /\ k = 0 \/ IsWhere(SubSeq(rest, 1, k))
              /\ k = Len(rest) \/ IsLimit(SubSeq(rest, k + 1, Len(rest)))

IsStatement(ts) == IsSelect(ts) \/ IsExpr(ts)

\* the positions of the ";" tokens, with both ends
Cuts(ts) == {0, Len(ts) + 1} \cup {i \in 1..Len(ts) : ts[i] = ";"}

\* parse(text).is_ok(): the text splits at its ";" into statements; empty
\* pieces are allowed after the first statement only
parse_is_ok(ts) ==
    /\ \A a \in Cuts(ts), b \in Cuts(ts) :
          (a < b /\ ~\E c \in Cuts(ts) : a < c /\ c < b)
             => (b = a + 1 /\ a > 0) \/ IsStatement(SubSeq(ts, a + 1, b - 1))
    /\ Len(ts) > 0

\* "SELECT * FROM table WHERE "
Template == <<"SELECT", "*", "FROM", "table", "WHERE">>

\* parse(&("SELECT * FROM table WHERE ".to_owned() + clause)).is_ok()
validate_where_clause(c) == parse_is_ok(Template \o c)

(* --------------------------- the commands ------------------------------- *)

ExtractOps ==
    { "extract_scope_definition", "extract_table_definition",
      "extract_field_definition", "extract_analyzer_definition",
      "extract_index_definition", "extract_event_definition",
      "extract_user_definition" }

\* the statement kind each extraction asks for
KindOf(o) ==
    CASE o = "extract_scope_definition"    -> "Scope"
      [] o = "extract_table_definition"    -> "Table"
      [] o = "extract_field_definition"    -> "Field"
      [] o = "extract_analyzer_definition" -> "Analyzer"
      [] o = "extract_index_definition"    -> "Index"
      [] o = "extract_event_definition"    -> "Event"
      [] o = "extract_user_definition"     -> "User"

\* the host's command dispatch
invoke(o, p) ==
    CASE o = "extract_scope_definition"    -> extract_scope_definition(p)
      [] o = "extract_table_definition"    -> extract_table_definition(p)
      [] o = "extract_field_definition"    -> extract_field_definition(p)
      [] o = "extract_analyzer_definition" -> extract_analyzer_definition(p)
      [] o = "extract_index_definition"    -> extract_index_definition(p)
      [] o = "extract_event_definition"    -> extract_event_definition(p)
      [] o = "extract_user_definition"     -> extract_user_definition(p)

NoCall == [op |-> "none"]

NoInput == ParseOk(<<>>)

Init ==
    /\ pc = "idle"
    /\ op = "none"
    /\ parsed = NoInput
    /\ clause = <<>>
    /\ ret = None
    /\ prev = NoCall

\* one command on a text the parser turns into p, run to its end
Call(o, p, r) ==
    /\ pc = "idle"
    /\ pc' = "done"
    /\ op' = o
    /\ parsed' = p
    /\ ret' = r
    /\ UNCHANGED <<clause, prev>>

ExtractScope ==
    \E p \in ParseOutcomes :
        Call("extract_scope_definition", p, extract_scope_definition(p))

ExtractTable ==
    \E p \in ParseOutcomes :
        Call("extract_table_definition", p, extract_table_definition(p))

ExtractField ==
    \E p \in ParseOutcomes :
        Call("extract_field_definition", p, extract_field_definition(p))

ExtractAnalyzer ==
    \E p \in ParseOutcomes :
        Call("extract_analyzer_definition", p, extract_analyzer_definition(p))

ExtractIndex ==
    \E p \in ParseOutcomes :
        Call("extract_index_definition", p, extract_index_definition(p))

ExtractEvent ==
    \E p \in ParseOutcomes :
        Call("extract_event_definition", p, extract_event_definition(p))

ExtractUser ==
    \E p \in ParseOutcomes :
        Call("extract_user_definition", p, extract_user_definition(p))

ValidateQuery ==
    \E p \in ParseOutcomes : Call("validate_query", p, validate_query(p))

ValidateWhereClause ==
    \E c \in Clauses :
        /\ pc = "idle"
        /\ pc' = "done"
        /\ op' = "validate_where_clause"
        /\ clause' = c
        /\ ret' = validate_where_clause(c)
        /\ UNCHANGED <<parsed, prev>>

\* the caller takes the result; nothing of the call is kept
Return ==
    /\ pc = "done"
    /\ pc' = "idle"
    /\ op' = "none"
    /\ parsed' = NoInput
    /\ clause' = <<>>
    /\ ret' = None
    /\ UNCHANGED prev

Next ==
    \/ ExtractScope
    \/ ExtractTable
    \/ ExtractField
    \/ ExtractAnalyzer
    \/ ExtractIndex
    \/ ExtractEvent
    \/ ExtractUser
    \/ ValidateQuery
    \/ ValidateWhereClause
    \/ Return

Spec == Init /\ [][Next]_vars

(* ------------- two calls in a row, the first one remembered ------------- *)

\* statements whose extraction returns, used for the comparison of two calls
PairStatements ==
    { TableStmt(FALSE, FALSE, None, DefaultPermissions, None, None),
      UserStmt(<<"Viewer">>, None),
      SelectStmt }

PairOutcomes ==
    { ParseErr(e) : e \in ParseErrors }
    \cup { ParseOk(stmts) : stmts \in SeqsUpTo(PairStatements, MaxStmts) }

PairExtract ==
    \E o \in ExtractOps, p \in PairOutcomes : Call(o, p, invoke(o, p))

\* the caller takes the result and the observer notes the finished call
PairReturn ==
    /\ pc = "done"
    /\ pc' = "idle"
    /\ op' = "none"
    /\ parsed' = NoInput
    /\ clause' = <<>>
    /\ ret' = None
    /\ prev' = [op |-> op, parsed |-> parsed, ret |-> ret]

PairNext == PairExtract \/ PairReturn

PairSpec == Init /\ [][PairNext]_vars

(* ------------------------------ claims ---------------------------------- *)

Done(o) == pc = "done" /\ op = o

\* the call parsed and there is a first statement
HasFirst == parsed.ok /\ Len(parsed.stmts) > 0

First == parsed.stmts[1]

ExtractDone == pc = "done" /\ op \in ExtractOps

\* the message that names the extraction's own kind
OwnKindMessage(o) ==
    CASE o = "extract_scope_definition"    -> <<"Failed to extract scope">>
      [] o = "extract_table_definition"    -> <<"Failed to extract table">>
      [] o = "extract_field_definition"    -> <<"Failed to extract field">>
      [] o = "extract_analyzer_definition" -> <<"Failed to extract analyzer">>
      [] o = "extract_index_definition"    -> <<"Failed to extract index">>
      [] o = "extract_event_definition"    -> <<"Failed to extract event">>
      [] o = "extract_user_definition"     -> <<"Failed to extract user">>

\* C1: when the text parses and its first statement is not a definition of
\* the requested kind, the extraction fails with the message that names its
\* own kind, so the seven messages are pairwise distinct.
C1_MismatchNamesOwnKind ==
    (ExtractDone /\ HasFirst /\ First.kind # KindOf(op))
        => ret = Err(OwnKindMessage(op))

\* C2: every extraction returns a descriptor or an error message and never
\* aborts, whatever the parser produced (an empty statement sequence and a
\* rendering shorter than two characters included).
C2_NeverAborts ==
    ExtractDone => ret.tag \in {"Ok", "Err"}

ExpectedKind(strategy) ==
    CASE strategy = "Idx"    -> "Normal"
      [] strategy = "Uniq"   -> "Unique"
      [] strategy = "Search" -> "Search"
      [] strategy = "MTree"  -> "Vector"

\* C3: in every index descriptor the kind follows the index strategy, a
\* Search index has a non-empty search text and an empty vector text, a
\* Vector index the reverse, a Normal or Unique index has both empty, and
\* the two texts are never both non-empty.
C3_IndexSlotsExclusive ==
    (Done("extract_index_definition") /\ ret.tag = "Ok") =>
        LET d == ret.val
        IN  /\ d.kind = ExpectedKind(First.index.strategy)
            /\ d.kind = "Search" => (d.search # <<>> /\ d.vector = <<>>)
            /\ d.kind = "Vector" => (d.vector # <<>> /\ d.search = <<>>)
            /\ d.kind \in {"Normal", "Unique"} => (d.search = <<>> /\ d.vector = <<>>)
            /\ ~(d.search # <<>> /\ d.vector # <<>>)

C3_Witness ==
    /\ Done("extract_index_definition")
    /\ ret.tag = "Ok"
    /\ First.index.strategy = "MTree"
    /\ ret.val.kind = "Vector"
    /\ ret.val.vector # <<>>
    /\ ret.val.search = <<>>

\* C4: for a Search or Vector index the text in the selected slot is the
\* rendering of the index specification, not of the whole statement.
C4_SlotHoldsIndexSpecOnly ==
    (Done("extract_index_definition") /\ ret.tag = "Ok") =>
        /\ ret.val.kind = "Search" => ret.val.search = index_to_string(First.index)
        /\ ret.val.kind = "Vector" => ret.val.vector = index_to_string(First.index)

\* a text without its first and its last character
CharStrip(cps) == SubSeq(cps, 2, Len(cps) - 1)

\* C5: the signup, signin and then texts are the clause's rendering without
\* its first and its last character (Unicode scalar values), for every
\* rendering of two characters or more, multi-byte characters included.
C5_StripIsByCharacter ==
    /\ (/\ Done("extract_scope_definition") /\ HasFirst /\ First.kind = "Scope"
        /\ First.signup.some /\ ~First.signin.some
        /\ Len(ValueChars(First.signup.v)) >= 2)
          => /\ ret.tag = "Ok"
             /\ ret.val.signup = Encode(CharStrip(ValueChars(First.signup.v)))
    /\ (/\ Done("extract_scope_definition") /\ HasFirst /\ First.kind = "Scope"
        /\ First.signin.some /\ ~First.signup.some
        /\ Len(ValueChars(First.signin.v)) >= 2)
          => /\ ret.tag = "Ok"
             /\ ret.val.signin = Encode(CharStrip(ValueChars(First.signin.v)))
    /\ (/\ Done("extract_event_definition") /\ HasFirst /\ First.kind = "Event"
        /\ Len(ValuesChars(First.then)) >= 2)
          => /\ ret.tag = "Ok"
             /\ ret.val.then = Encode(CharStrip(ValuesChars(First.then)))

\* C6: a definition that omits every optional clause gives a descriptor whose
\* fields for the omitted clauses are false, the empty list or the empty
\* text.
C6_OmittedClausesDefault ==
    (ExtractDone /\ HasFirst /\ First.kind = KindOf(op) /\ ret.tag = "Ok") =>
        LET q == First
            d == ret.val
        IN  /\ (q.kind = "Scope" /\ ~q.signup.some /\ ~q.signin.some
                                 /\ ~q.session.some /\ ~q.comment.some)
                  => /\ d.signup = <<>> /\ d.signin = <<>>
                     /\ d.session = <<>> /\ d.comment = ""
            /\ (q.kind = "Table" /\ ~q.drop /\ ~q.full /\ ~q.comment.some
                                 /\ ~q.changefeed.some)
                  => /\ ~d.drop /\ ~d.schemafull /\ d.comment = ""
                     /\ ~d.changefeed /\ d.changetime = <<>>
                     /\ (q.view.some /\ ~q.view.v.cond.some /\ ~q.view.v.group.some)
                           => (d.view.v.cond = <<>> /\ d.view.v.group = <<>>)
            /\ (q.kind = "Field" /\ ~q.flex /\ ~q.type.some /\ ~q.value.some
                                 /\ ~q.assert.some /\ ~q.default.some
                                 /\ ~q.comment.some)
                  => /\ ~d.flexible /\ d.kind = <<>> /\ d.value = <<>>
                     /\ d.assert = <<>> /\ d.default = <<>> /\ d.comment = ""
            /\ (q.kind = "Analyzer" /\ ~q.tokenizers.some /\ ~q.filters.some
                                    /\ ~q.comment.some)
                  => d.tokenizers = <<>> /\ d.filters = <<>> /\ d.comment = ""
            /\ (q.kind \in {"Index", "Event", "User"} /\ ~q.comment.some)
                  => d.comment = ""

\* C7: when the parser rejects the text, an extraction returns the parser's
\* diagnostic unchanged and no descriptor; validate_query returns the same
\* diagnostic, and nothing exactly when the parser accepts the text.
C7_DiagnosticUnchanged ==
    /\ (ExtractDone /\ ~parsed.ok) => ret = Err(error_to_string(parsed.err))
    /\ Done("validate_query") =>
          /\ ~parsed.ok => ret = Some(error_to_string(parsed.err))
          /\ parsed.ok <=> ret = None

C7_Witness ==
    /\ Done("extract_field_definition")
    /\ ~parsed.ok
    /\ parsed.err.variant = "InvalidQuery"
    /\ ret.tag = "Err"
    /\ ret.msg = <<"Parse error on line", "1", "at character", "8">>

\* C8: two calls of the same extraction on texts whose parses have the same
\* first statement return the same result, whatever the later statements.
C8_OnlyFirstStatementCounts ==
    (/\ pc = "done" /\ prev.op = op /\ op \in ExtractOps
     /\ HasFirst /\ prev.parsed.ok /\ Len(prev.parsed.stmts) > 0
     /\ prev.parsed.stmts[1] = First)
        => ret = prev.ret

\* a table definition in second position, after a call on the same first
\* statement alone: the extraction fails both times
C8_Witness ==
    /\ Done("extract_table_definition")
    /\ prev.op = op
    /\ prev.parsed = ParseOk(<<SelectStmt>>)
    /\ parsed.ok
    /\ Len(parsed.stmts) = 2
    /\ parsed.stmts[1] = SelectStmt
    /\ parsed.stmts[2].kind = "Table"
    /\ ret = Err(<<"Failed to extract table">>)
    /\ ret = prev.ret

\* C9: validate_where_clause returns true exactly when the whole fragment is
\* one filter condition.
C9_TrueOnlyForWholeCondition ==
    Done("validate_where_clause") => (ret <=> IsExpr(clause))

\* C10: an absent signup or signin clause gives the empty text, and so does
\* a clause whose rendering is "()".
C10_AbsentClauseIsEmpty ==
    (Done("extract_scope_definition") /\ HasFirst /\ First.kind = "Scope") =>
        /\ (~First.signup.some /\ ~First.signin.some) => ret.tag = "Ok"
        /\ ret.tag = "Ok" =>
              /\ ~First.signup.some => ret.val.signup = <<>>
              /\ ~First.signin.some => ret.val.signin = <<>>
              /\ (First.signup.some /\ to_string(First.signup.v) = <<40, 41>>)
                    => ret.val.signup = <<>>
              /\ (First.signin.some /\ to_string(First.signin.v) = <<40, 41>>)
                    => ret.val.signin = <<>>

\* signup absent, signin rendered "()": the two texts are equal and empty
C10_Witness ==
    /\ Done("extract_scope_definition")
    /\ HasFirst
    /\ First.kind = "Scope"
    /\ ~First.signup.some
    /\ First.signin.some
    /\ to_string(First.signin.v) = <<40, 41>>
    /\ ret.tag = "Ok"
    /\ ret.val.signup = <<>>
    /\ ret.val.signin = ret.val.signup

====
